---- MODULE Spec2Model ----
(***************************************************************************)
(* A model of the victoria3-translator localisation pipeline:              *)
(*   - chunk_text_by_lines, translate_chunk, translate_file,               *)
(*     update_languages_yml and main   (generate-victoria3-l10n.py)        *)
(*   - parse_paradox_yaml and dump_keys_unquoted_values_quoted             *)
(*                                      (scripts/paradox_yaml_tools.py)    *)
(*                                                                         *)
(* A text is a sequence of characters; a character is a string of length   *)
(* one, except the byte order mark U+FEFF, which is written "BOM", and the *)
(* grave accent U+0060, which is written "BACKTICK".                       *)
(***************************************************************************)
EXTENDS Integers, Sequences, FiniteSets, TLC

VARIABLES chunker, finalizer, registry, run

vars == <<chunker, finalizer, registry, run>>

\* The value of a component that a specification does not exercise.
Idle == [pc |-> "idle"]

(***************************************************************************)
(* Bounds of the model.                                                    *)
(***************************************************************************)
MaxTextLen == 5
MaxBudget == 3
MaxFinLines == 3
MaxRegLines == 4
MaxFiles == 2
MaxRetries == 1

\* MAX_TOKENS_PER_CHUNK
MAX_TOKENS_PER_CHUNK == 1000

(***************************************************************************)
(* Characters and strings                                                  *)
(***************************************************************************)
NL == "\n"
CR == "\r"
SP == " "
QUOTE == "\""
BSLASH == "\\"
BOM == "BOM"
BACKTICK == "BACKTICK"

\* str.isspace() for the characters of the model (U+FEFF is not whitespace).
IsSpace(c) == c \in {SP, NL, CR, "\t"}

\* [A-Za-z0-9_]
IsWord(c) ==
    c \in {"a", "b", "c", "d", "e", "f", "g", "h", "i", "j", "k", "l", "m", "n", "o",
           "p", "q", "r", "s", "t", "u", "v", "w", "x", "y", "z", "_", "0", "1"}

\* \d
IsDigit(c) == c \in {"0", "1"}

Tail2(s, n) == SubSeq(s, n + 1, Len(s))

StartsWith(s, p) == Len(s) >= Len(p) /\ SubSeq(s, 1, Len(p)) = p

EndsWith(s, p) == Len(s) >= Len(p) /\ SubSeq(s, Len(s) - Len(p) + 1, Len(s)) = p

RECURSIVE Concat(_)
\* "".join(parts)
Concat(parts) ==
    IF parts = <<>> THEN <<>> ELSE Head(parts) \o Concat(Tail(parts))

RECURSIVE JoinWith(_, _)
\* sep.join(parts)
JoinWith(sep, parts) ==
    IF parts = <<>> THEN <<>>
    ELSE IF Len(parts) = 1 THEN Head(parts)
    ELSE Head(parts) \o sep \o JoinWith(sep, Tail(parts))

RECURSIVE LStrip(_)
\* str.lstrip()
LStrip(s) == IF s # <<>> /\ IsSpace(Head(s)) THEN LStrip(Tail(s)) ELSE s

RECURSIVE RStrip(_)
\* str.rstrip()
RStrip(s) ==
    IF s # <<>> /\ IsSpace(s[Len(s)]) THEN RStrip(SubSeq(s, 1, Len(s) - 1)) ELSE s

\* str.strip()
Strip(s) == LStrip(RStrip(s))

\* The index at which the first line of s ends, its line break included
\* ("\r\n" is one break); 0 when s holds no line break.
BreakEnd(s) ==
    LET brk == {i \in 1..Len(s) : s[i] \in {NL, CR}}
    IN  IF brk = {} THEN 0
        ELSE LET i == CHOOSE j \in brk : \A k \in brk : j <= k
             IN  IF s[i] = CR /\ i < Len(s) /\ s[i + 1] = NL THEN i + 1 ELSE i

\* A line without its line break.
ChompBreak(line) ==
    IF EndsWith(line, <<CR, NL>>) THEN SubSeq(line, 1, Len(line) - 2)
    ELSE IF line # <<>> /\ line[Len(line)] \in {NL, CR}
         THEN SubSeq(line, 1, Len(line) - 1)
    ELSE line

RECURSIVE SplitLinesKeep(_)
\* text.splitlines(keepends=True)
SplitLinesKeep(s) ==
    IF s = <<>> THEN <<>>
    ELSE LET e == BreakEnd(s)
         IN  IF e = 0 THEN <<s>>
             ELSE <<SubSeq(s, 1, e)>> \o SplitLinesKeep(Tail2(s, e))

\* text.splitlines()
SplitLines(s) ==
    LET kept == SplitLinesKeep(s) IN [i \in 1..Len(kept) |-> ChompBreak(kept[i])]

RECURSIVE SeqsUpTo(_, _)
\* Every sequence over alphabet of length at most n.
SeqsUpTo(alphabet, n) ==
    IF n = 0 THEN {<<>>}
    ELSE LET shorter == SeqsUpTo(alphabet, n - 1)
         IN  shorter \cup {Append(s, c) : s \in shorter, c \in alphabet}

(***************************************************************************)
(* The token counter: len(encoding.encode(s)).  The encoding is an         *)
(* argument of the program; the model draws it from three tokenizers.      *)
(*   "chars": one token per character.                                     *)
(*   "flat" : one token for any non-empty string.                          *)
(*   "bpe"  : byte pair encoding with the merge list                       *)
(*            [("\n","a"), ("a","\n")] (highest priority first).           *)
(* and, for the runs of the whole program, where the budget is the         *)
(* constant MAX_TOKENS_PER_CHUNK, a tokenizer that makes files of a few    *)
(* lines exceed it:                                                        *)
(*   "coarse": a hundred tokens per character.                             *)
(***************************************************************************)
Encodings == {"chars", "flat", "bpe"}

\* The number of merges byte pair encoding performs on s.
BpeMerges(s) ==
    LET first == {i \in 1..(Len(s) - 1) : s[i] = NL /\ s[i + 1] = "a"}
        second == {i \in 1..(Len(s) - 1) :
                     /\ s[i] = "a" /\ s[i + 1] = NL
                     /\ (i - 1) \notin first
                     /\ (i + 1) \notin first}
    IN  Cardinality(first) + Cardinality(second)

TokenCount(encoding, s) ==
    CASE encoding = "chars" -> Len(s)
      [] encoding = "flat" -> IF s = <<>> THEN 0 ELSE 1
      [] encoding = "bpe" -> Len(s) - BpeMerges(s)
      [] encoding = "coarse" -> 100 * Len(s)

(***************************************************************************)
(* chunk_text_by_lines                                                     *)
(***************************************************************************)
\* A loop body that compares only the tokens of the chunk built so far.
ChunkStepNoLineTokens(st, line, max_tokens, encoding) ==
    LET current_tokens == TokenCount(encoding, st.current_chunk)
    IN  IF current_tokens > max_tokens /\ st.current_chunk # <<>>
        THEN [chunks |-> Append(st.chunks, st.current_chunk), current_chunk |-> line]
        ELSE [chunks |-> st.chunks, current_chunk |-> st.current_chunk \o line]

\* A loop body that loses the line that starts a new chunk.
ChunkStepDropsLine(st, line, max_tokens, encoding) ==
    LET current_tokens == TokenCount(encoding, st.current_chunk)
        line_tokens == TokenCount(encoding, line)
    IN  IF current_tokens + line_tokens > max_tokens /\ st.current_chunk # <<>>
        THEN [chunks |-> Append(st.chunks, st.current_chunk), current_chunk |-> <<>>]
        ELSE [chunks |-> st.chunks, current_chunk |-> st.current_chunk \o line]

\* The body of the loop over the lines.
ChunkStep(st, line, max_tokens, encoding) ==
    LET current_tokens == TokenCount(encoding, st.current_chunk)
        line_tokens == TokenCount(encoding, line)
    IN  IF current_tokens + line_tokens > max_tokens /\ st.current_chunk # <<>>
        THEN [chunks |-> Append(st.chunks, st.current_chunk), current_chunk |-> line]
        ELSE [chunks |-> st.chunks, current_chunk |-> st.current_chunk \o line]

\* What follows the loop: the last chunk is emitted when it is not empty.
ChunkFlush(st) ==
    IF st.current_chunk # <<>> THEN Append(st.chunks, st.current_chunk) ELSE st.chunks

RECURSIVE ChunkLoop(_, _, _, _)
ChunkLoop(st, lines, max_tokens, encoding) ==
    IF lines = <<>> THEN st
    ELSE ChunkLoop(ChunkStep(st, Head(lines), max_tokens, encoding),
                   Tail(lines), max_tokens, encoding)

\* The function as a whole, as translate_file calls it.
chunk_text_by_lines(text, max_tokens, encoding) ==
    ChunkFlush(ChunkLoop([chunks |-> <<>>, current_chunk |-> <<>>],
                         SplitLinesKeep(text), max_tokens, encoding))

ChunkAlphabet == {"a", NL, CR}

ChunkInit ==
    \E text \in SeqsUpTo(ChunkAlphabet, MaxTextLen), max_tokens \in 0..MaxBudget,
       encoding \in Encodings :
        chunker = [pc |-> "loop", text |-> text, max_tokens |-> max_tokens,
                   encoding |-> encoding, lines |-> SplitLinesKeep(text), i |-> 1,
                   chunks |-> <<>>, current_chunk |-> <<>>]

\* One iteration of "for line in lines".
ChunkLine ==
    /\ chunker.pc = "loop"
    /\ chunker.i <= Len(chunker.lines)
    /\ LET st == ChunkStep([chunks |-> chunker.chunks,
                            current_chunk |-> chunker.current_chunk],
                           chunker.lines[chunker.i], chunker.max_tokens,
                           chunker.encoding)
       IN  chunker' = [chunker EXCEPT !.i = @ + 1, !.chunks = st.chunks,
                                      !.current_chunk = st.current_chunk]
    /\ UNCHANGED <<finalizer, registry, run>>

\* The end of the loop: the last chunk, and the return.
ChunkReturn ==
    /\ chunker.pc = "loop"
    /\ chunker.i > Len(chunker.lines)
    /\ chunker' = [chunker EXCEPT !.pc = "done",
                     !.chunks = ChunkFlush([chunks |-> chunker.chunks,
                                            current_chunk |-> chunker.current_chunk]),
                     !.current_chunk = <<>>]
    /\ UNCHANGED <<finalizer, registry, run>>

InitChunk == ChunkInit /\ finalizer = Idle /\ registry = Idle /\ run = Idle

NextChunk == ChunkLine \/ ChunkReturn

SpecChunk == InitChunk /\ [][NextChunk]_vars

(***************************************************************************)
(* The header rewrite and the reindentation of translate_file              *)
(***************************************************************************)
L_ENGLISH_COLON == <<"l", "_", "e", "n", "g", "l", "i", "s", "h", ":">>

czech == <<"c", "z", "e", "c", "h">>
english == <<"e", "n", "g", "l", "i", "s", "h">>

\* The values of --language the model draws from: the name of a language, and
\* an argument given with the prefix of a header.
TargetLangs == {czech, english, <<"l", "_">> \o english}

\* target_header = f"l_{target_lang}:"
TargetHeader(target_lang) == <<"l", "_">> \o target_lang \o <<":">>

RECURSIVE ReSub(_, _, _)
\* re.sub(pattern, repl, text) for a pattern that is a literal string.
ReSub(pattern, repl, text) ==
    IF text = <<>> THEN <<>>
    ELSE IF StartsWith(text, pattern)
         THEN repl \o ReSub(pattern, repl, Tail2(text, Len(pattern)))
    ELSE <<Head(text)>> \o ReSub(pattern, repl, Tail(text))

\* header_pattern.match(stripped), header_pattern = re.compile(r"l_[^:]+:")
HeaderPatternMatch(stripped) ==
    /\ Len(stripped) >= 4
    /\ stripped[1] = "l"
    /\ stripped[2] = "_"
    /\ stripped[3] # ":"
    /\ \E j \in 4..Len(stripped) : stripped[j] = ":"

\* A loop body that indents what is left of the line as it is.
ReindentLineKeepsIndent(line, header_found) ==
    LET stripped == Strip(line)
    IN  IF stripped = <<>> \/ Head(stripped) = "#"
        THEN [out |-> line, header_found |-> header_found]
        ELSE IF ~header_found /\ HeaderPatternMatch(stripped)
             THEN [out |-> Strip(line), header_found |-> TRUE]
        ELSE [out |-> <<SP, SP>> \o line, header_found |-> header_found]

\* The body of the reindentation loop, for one line.
ReindentLine(line, header_found) ==
    LET stripped == Strip(line)
    IN  IF stripped = <<>> \/ Head(stripped) = "#"
        THEN [out |-> line, header_found |-> header_found]
        ELSE IF ~header_found /\ HeaderPatternMatch(stripped)
             THEN [out |-> Strip(line), header_found |-> TRUE]
        ELSE [out |-> <<SP, SP>> \o LStrip(line), header_found |-> header_found]

RECURSIVE ReindentLoop(_, _)
\* The output lines of the reindentation loop.
ReindentLoop(lines, header_found) ==
    IF lines = <<>> THEN <<>>
    ELSE LET r == ReindentLine(Head(lines), header_found)
         IN  <<r.out>> \o ReindentLoop(Tail(lines), r.header_found)

\* A reindentation that ends the text it returns with a line break.
ReindentEndsWithBreak(final_text) ==
    JoinWith(<<NL>>, ReindentLoop(SplitLines(final_text), FALSE)) \o <<NL>>

\* Lines 124-140: final_text -> the returned text.
Reindent(final_text) == JoinWith(<<NL>>, ReindentLoop(SplitLines(final_text), FALSE))

\* The header rewrite followed by the reindentation.
Finalize(text, target_lang) ==
    Reindent(ReSub(L_ENGLISH_COLON, TargetHeader(target_lang), text))

\* The lines the model builds its input files from: an indentation, then
\* nothing, a comment, the header, an entry keyed l_english, or another entry.
FinIndents == {<<>>, <<SP, SP, SP>>}

FinBodies ==
    { <<>>,
      <<"#", "c">>,
      L_ENGLISH_COLON,
      L_ENGLISH_COLON \o <<"1", SP, QUOTE, "x", QUOTE>>,
      <<"k", ":", "0", SP, QUOTE, "x", QUOTE>> }

FinLinePool ==
    {ind \o body : ind \in FinIndents, body \in FinBodies}
        \cup {L_ENGLISH_COLON \o <<SP>>,
              <<SP>> \o L_ENGLISH_COLON \o <<"1", SP, QUOTE, "x", QUOTE>>}

\* A file as f.read() returns it: an optional byte order mark, the lines
\* separated by line breaks, and a last line break or none.
FinTexts ==
    {bom \o JoinWith(<<NL>>, ls) \o last :
        bom \in {<<>>, <<BOM>>}, ls \in SeqsUpTo(FinLinePool, MaxFinLines),
        last \in {<<>>, <<NL>>}}

FinInit ==
    \E t \in FinTexts, target_lang \in TargetLangs :
        finalizer = [pc |-> "sub", input |-> t, target_lang |-> target_lang,
                     text |-> t, lines |-> <<>>, i |-> 1, output_lines |-> <<>>,
                     header_found |-> FALSE, result |-> <<>>]

\* Line 111, then line 125 (the text goes to the loop as it is).
FinSubstitute ==
    /\ finalizer.pc = "sub"
    /\ LET text == ReSub(L_ENGLISH_COLON, TargetHeader(finalizer.target_lang),
                         finalizer.text)
       IN  finalizer' = [finalizer EXCEPT !.pc = "loop", !.text = text,
                                          !.lines = SplitLines(text)]
    /\ UNCHANGED <<chunker, registry, run>>

\* One iteration of "for line in lines".
FinLine ==
    /\ finalizer.pc = "loop"
    /\ finalizer.i <= Len(finalizer.lines)
    /\ LET r == ReindentLine(finalizer.lines[finalizer.i], finalizer.header_found)
       IN  finalizer' = [finalizer EXCEPT !.i = @ + 1,
                           !.output_lines = Append(@, r.out),
                           !.header_found = r.header_found]
    /\ UNCHANGED <<chunker, registry, run>>

\* Line 140.
FinReturn ==
    /\ finalizer.pc = "loop"
    /\ finalizer.i > Len(finalizer.lines)
    /\ finalizer' = [finalizer EXCEPT !.pc = "done",
                       !.result = JoinWith(<<NL>>, finalizer.output_lines)]
    /\ UNCHANGED <<chunker, registry, run>>

InitFinalize == FinInit /\ chunker = Idle /\ registry = Idle /\ run = Idle

NextFinalize == FinSubstitute \/ FinLine \/ FinReturn

SpecFinalize == InitFinalize /\ [][NextFinalize]_vars

(***************************************************************************)
(* parse_paradox_yaml                                                      *)
(***************************************************************************)
\* The value None of current_header.
None == <<>>

\* The last index of the run of [A-Za-z0-9_] that starts at s[from]
\* (from - 1 when s[from] is no such character).
WordRunEnd(s, from) ==
    LET stops == {j \in from..Len(s) : ~IsWord(s[j])}
    IN  IF stops = {} THEN Len(s)
        ELSE (CHOOSE j \in stops : \A k \in stops : j <= k) - 1

NoMatch == [ok |-> FALSE, key |-> <<>>, val |-> <<>>]

\* header_regex.match(line), header_regex = ^\s*(l_[A-Za-z0-9_]+):\s*$
\* key is group 1.
HeaderRegex(line) ==
    LET s == LStrip(line)
        j == WordRunEnd(s, 3)
    IN  IF /\ Len(s) >= 4
           /\ s[1] = "l"
           /\ s[2] = "_"
           /\ j >= 3
           /\ j < Len(s)
           /\ s[j + 1] = ":"
           /\ RStrip(Tail2(s, j + 1)) = <<>>
        THEN [ok |-> TRUE, key |-> SubSeq(s, 1, j), val |-> <<>>]
        ELSE NoMatch

\* entry_regex.match(line),
\* entry_regex = ^\s+(l_[A-Za-z0-9_]+:\d?)\s+"(.*)"\s*$
\* key is group 1 and val is group 2.
EntryRegex(line) ==
    LET s == LStrip(line)
        j == WordRunEnd(s, 3)
        k == IF j + 2 <= Len(s) /\ IsDigit(s[j + 2]) THEN j + 2 ELSE j + 1
        rest == Tail2(s, k)
        quoted == RStrip(LStrip(rest))
    IN  IF /\ Len(s) < Len(line)
           /\ Len(s) >= 4
           /\ s[1] = "l"
           /\ s[2] = "_"
           /\ j >= 3
           /\ j < Len(s)
           /\ s[j + 1] = ":"
           /\ Len(LStrip(rest)) < Len(rest)
           /\ Len(quoted) >= 2
           /\ quoted[1] = QUOTE
           /\ quoted[Len(quoted)] = QUOTE
        THEN [ok |-> TRUE, key |-> SubSeq(s, 1, k),
              val |-> SubSeq(quoted, 2, Len(quoted) - 1)]
        ELSE NoMatch

RECURSIVE LStripBom(_)
\* line.lstrip(U+FEFF)
LStripBom(line) ==
    IF line # <<>> /\ Head(line) = BOM THEN LStripBom(Tail(line)) ELSE line

RECURSIVE RStripNewline(_)
\* line.rstrip('\n')
RStripNewline(line) ==
    IF line # <<>> /\ line[Len(line)] = NL
    THEN RStripNewline(SubSeq(line, 1, Len(line) - 1))
    ELSE line

\* A Document is a dict of dicts, which keeps the order of insertion: a
\* sequence of blocks [header, entries], entries a sequence of [key, val].
HasKey(entries, key) == \E n \in 1..Len(entries) : entries[n].key = key

\* d[key] = val
DictSet(entries, key, val) ==
    IF HasKey(entries, key)
    THEN [n \in 1..Len(entries) |->
            IF entries[n].key = key THEN [key |-> key, val |-> val] ELSE entries[n]]
    ELSE Append(entries, [key |-> key, val |-> val])

HasBlock(blocks, header) == \E n \in 1..Len(blocks) : blocks[n].header = header

\* blocks[header]
BlockOf(blocks, header) ==
    blocks[CHOOSE n \in 1..Len(blocks) : blocks[n].header = header]

\* blocks[header] = entries
BlockSet(blocks, header, entries) ==
    IF HasBlock(blocks, header)
    THEN [n \in 1..Len(blocks) |->
            IF blocks[n].header = header
            THEN [header |-> header, entries |-> entries]
            ELSE blocks[n]]
    ELSE Append(blocks, [header |-> header, entries |-> entries])

\* A loop body that files an entry met before any header under None.
ParseStepKeepsOrphan(st, rawline) ==
    LET line == RStripNewline(LStripBom(rawline))
        match_header == HeaderRegex(line)
        match_entry == EntryRegex(line)
    IN  IF Strip(line) = <<>> THEN st
        ELSE IF match_header.ok
             THEN [st EXCEPT !.current_header = match_header.key,
                             !.blocks = BlockSet(st.blocks, match_header.key, <<>>)]
        ELSE IF match_entry.ok
             THEN [st EXCEPT !.blocks =
                     BlockSet(st.blocks, st.current_header,
                              DictSet(IF HasBlock(st.blocks, st.current_header)
                                      THEN BlockOf(st.blocks, st.current_header).entries
                                      ELSE <<>>,
                                      match_entry.key, match_entry.val))]
        ELSE st

\* A loop body that leaves a block as it is when its header comes again.
ParseStepKeepsBlock(st, rawline) ==
    LET line == RStripNewline(LStripBom(rawline))
        match_header == HeaderRegex(line)
        match_entry == EntryRegex(line)
    IN  IF Strip(line) = <<>> THEN st
        ELSE IF match_header.ok
             THEN [st EXCEPT !.current_header = match_header.key,
                             !.blocks = IF HasBlock(st.blocks, match_header.key)
                                        THEN st.blocks
                                        ELSE BlockSet(st.blocks, match_header.key, <<>>)]
        ELSE IF match_entry.ok /\ st.current_header # None
             THEN [st EXCEPT !.blocks =
                     BlockSet(st.blocks, st.current_header,
                              DictSet(BlockOf(st.blocks, st.current_header).entries,
                                      match_entry.key, match_entry.val))]
        ELSE st

\* The body of "for line in f"; error is the exception raised, "none" when
\* the iteration ends normally.
ParseStep(st, rawline) ==
    LET line == RStripNewline(LStripBom(rawline))
        match_header == HeaderRegex(line)
        match_entry == EntryRegex(line)
    IN  IF Strip(line) = <<>> THEN st
        ELSE IF match_header.ok
             THEN [st EXCEPT !.current_header = match_header.key,
                             !.blocks = BlockSet(st.blocks, match_header.key, <<>>)]
        ELSE IF match_entry.ok /\ st.current_header # None
             THEN [st EXCEPT !.blocks =
                     BlockSet(st.blocks, st.current_header,
                              DictSet(BlockOf(st.blocks, st.current_header).entries,
                                      match_entry.key, match_entry.val))]
        ELSE st

ParseStart == [blocks |-> <<>>, current_header |-> None, error |-> "none"]

RECURSIVE ParseLoop(_, _)
ParseLoop(st, lines) ==
    IF lines = <<>> THEN st ELSE ParseLoop(ParseStep(st, Head(lines)), Tail(lines))

\* The function as a whole, on the text of the file: the Document returned.
parse_paradox_yaml(text) == ParseLoop(ParseStart, SplitLinesKeep(text)).blocks

(***************************************************************************)
(* dump_keys_unquoted_values_quoted and update_languages_yml               *)
(***************************************************************************)
RECURSIVE EscapeDoubleQuoted(_)
\* The body of a double-quoted scalar as the YAML emitter writes it.
EscapeDoubleQuoted(val) ==
    IF val = <<>> THEN <<>>
    ELSE (IF Head(val) \in {QUOTE, BSLASH} THEN <<BSLASH, Head(val)>> ELSE <<Head(val)>>)
         \o EscapeDoubleQuoted(Tail(val))

\* A value: a string scalar, forced to the double-quoted style.
DumpValue(val) == <<QUOTE>> \o EscapeDoubleQuoted(val) \o <<QUOTE>>

\* A key: a plain scalar when the emitter allows one, single-quoted when the
\* key ends in a colon.
DumpKey(key) ==
    IF key # <<>> /\ key[Len(key)] = ":" THEN <<"'">> \o key \o <<"'">> ELSE key

DumpEntry(entry) ==
    <<SP, SP>> \o DumpKey(entry.key) \o <<":", SP>> \o DumpValue(entry.val) \o <<NL>>

\* A block: an empty dict is written in flow style on the line of its key.
DumpBlock(block) ==
    IF block.entries = <<>>
    THEN DumpKey(block.header) \o <<":", SP, "{", "}", NL>>
    ELSE DumpKey(block.header) \o <<":", NL>>
         \o Concat([n \in 1..Len(block.entries) |-> DumpEntry(block.entries[n])])

\* yaml.dump(data, Dumper=DoubleQuotedValuesDumper, default_flow_style=False,
\*           sort_keys=False, allow_unicode=True), for values shorter than the
\* width at which the emitter folds a line.
dump_keys_unquoted_values_quoted(data) ==
    IF data = <<>> THEN <<"{", "}", NL>>
    ELSE Concat([n \in 1..Len(data) |-> DumpBlock(data[n])])

\* The substitution of line 230 on one line of the dump,
\* ^(\s*l_[A-Za-z0-9_]+:\d):\s*  ->  \1 and one space.
\* (No line of the dump is blank, so that \s matches within the line.)
ColonFixLine(line) ==
    LET s == LStrip(line)
        indent == SubSeq(line, 1, Len(line) - Len(s))
        j == WordRunEnd(s, 3)
    IN  IF /\ Len(s) >= j + 3
           /\ s[1] = "l"
           /\ s[2] = "_"
           /\ j >= 3
           /\ s[j + 1] = ":"
           /\ IsDigit(s[j + 2])
           /\ s[j + 3] = ":"
        THEN indent \o SubSeq(s, 1, j + 2) \o <<SP>> \o LStrip(Tail2(s, j + 3))
        ELSE line

ColonFix(yaml_output) ==
    LET kept == SplitLinesKeep(yaml_output)
    IN  Concat([n \in 1..Len(kept) |-> ColonFixLine(kept[n])])

\* Lines 225-230: the text written to the output file.
Serialize(languages) == ColonFix(dump_keys_unquoted_values_quoted(languages))

\* f"l_{target_lang}"
LangHeader(target_lang) == <<"l", "_">> \o target_lang

\* f"{lang_key}:1"
LangEntryKey(target_lang) == LangHeader(target_lang) \o <<":", "1">>

\* Lines 211-216: the new language is added to every block.
AddToEveryBlock(languages, target_lang, native) ==
    [n \in 1..Len(languages) |->
        IF ~HasKey(languages[n].entries, LangHeader(target_lang))
        THEN [languages[n] EXCEPT
                !.entries = DictSet(@, LangEntryKey(target_lang), native)]
        ELSE languages[n]]

\* Lines 211-223: the Document after the update.
UpdateLanguages(languages, target_lang, native) ==
    LET added == AddToEveryBlock(languages, target_lang, native)
    IN  IF ~HasBlock(added, LangHeader(target_lang))
           /\ HasBlock(added, LangHeader(english))
        THEN Append(added, [header |-> LangHeader(target_lang),
                            entries |-> BlockOf(added, LangHeader(english)).entries])
        ELSE added

french == <<"f", "r", "e", "n", "c", "h">>

\* The lines the model builds languages.yml from.
RegHeaderEnglish == LangHeader(english) \o <<":">>
RegHeaderFrench == <<SP>> \o LangHeader(french) \o <<":">>
RegEntryEnglish == <<SP>> \o LangEntryKey(english) \o <<SP, QUOTE, "E", QUOTE>>
RegEntryEnglishAgain ==
    <<SP, SP>> \o LangEntryKey(english) \o <<SP, QUOTE, "X", QUOTE, SP>>
RegEntryFrench ==
    <<SP>> \o LangEntryKey(french) \o <<SP, QUOTE, "a", BSLASH, QUOTE, "b", QUOTE>>
RegEntryNoDigit == <<SP>> \o LangHeader(<<"x">>) \o <<":", SP, QUOTE, "v", QUOTE>>
RegComment == <<"#", SP, "c">>

RegLinePool ==
    {RegHeaderEnglish, RegHeaderFrench, RegEntryEnglish, RegEntryEnglishAgain,
     RegEntryFrench, RegEntryNoDigit, RegComment, <<>>}

\* languages.yml as the game ships it starts with a byte order mark.
RegTexts ==
    {bom \o Concat([n \in 1..Len(ls) |-> ls[n] \o <<NL>>]) :
        bom \in {<<>>, <<BOM>>}, ls \in SeqsUpTo(RegLinePool, MaxRegLines)}

\* What get_native_language_name can return: the name the service gives, or
\* the language name itself.
NativeNames(target_lang) == {<<"N">>, target_lang}

RegInit ==
    \E t \in RegTexts, target_lang \in {czech, french} :
        registry = [pc |-> "parse", input |-> t, target_lang |-> target_lang,
                    lines |-> SplitLinesKeep(t), i |-> 1, blocks |-> <<>>,
                    current_header |-> None, error |-> "none", parsed |-> <<>>,
                    native |-> <<>>, yaml_output |-> <<>>, written |-> FALSE]

\* One iteration of "for line in f".
ParseLine ==
    /\ registry.pc = "parse"
    /\ registry.i <= Len(registry.lines)
    /\ LET st == ParseStep([blocks |-> registry.blocks,
                            current_header |-> registry.current_header,
                            error |-> registry.error],
                           registry.lines[registry.i])
       IN  registry' = [registry EXCEPT !.i = @ + 1, !.blocks = st.blocks,
                                        !.current_header = st.current_header,
                                        !.error = st.error]
    /\ UNCHANGED <<chunker, finalizer, run>>

\* return blocks
ParseReturn ==
    /\ registry.pc = "parse"
    /\ registry.i > Len(registry.lines)
    /\ registry' = [registry EXCEPT !.pc = "parsed", !.parsed = registry.blocks]
    /\ UNCHANGED <<chunker, finalizer, run>>

\* Lines 202-206: the language is there already, the file is copied.
UpdateCopies ==
    /\ registry.pc = "parsed"
    /\ HasBlock(registry.blocks, LangHeader(registry.target_lang))
    /\ registry' = [registry EXCEPT !.pc = "done", !.yaml_output = registry.input,
                                    !.written = TRUE]
    /\ UNCHANGED <<chunker, finalizer, run>>

\* Lines 208-238: the language is added and the file written.
UpdateAdds ==
    /\ registry.pc = "parsed"
    /\ ~HasBlock(registry.blocks, LangHeader(registry.target_lang))
    /\ \E native \in NativeNames(registry.target_lang) :
        LET languages == UpdateLanguages(registry.blocks, registry.target_lang, native)
        IN  registry' = [registry EXCEPT !.pc = "done", !.native = native,
                           !.blocks = languages,
                           !.yaml_output = Serialize(languages),
                           !.written = TRUE]
    /\ UNCHANGED <<chunker, finalizer, run>>

\* Line 209: the call of the service raises, and nothing is written.
UpdateRaises ==
    /\ registry.pc = "parsed"
    /\ ~HasBlock(registry.blocks, LangHeader(registry.target_lang))
    /\ registry' = [registry EXCEPT !.pc = "raised"]
    /\ UNCHANGED <<chunker, finalizer, run>>

InitRegistry == RegInit /\ chunker = Idle /\ finalizer = Idle /\ run = Idle

NextRegistry == ParseLine \/ ParseReturn \/ UpdateCopies \/ UpdateAdds \/ UpdateRaises

SpecRegistry == InitRegistry /\ [][NextRegistry]_vars

(***************************************************************************)
(* translate_chunk, translate_file and the loop of main over the files     *)
(***************************************************************************)
FENCE_OPEN == <<BACKTICK, BACKTICK, BACKTICK, "y", "a", "m", "l">>
FENCE_CLOSE == <<BACKTICK, BACKTICK, BACKTICK>>

\* What the service can answer to a chunk: the chunk as it is, or the chunk
\* wrapped in a fenced code block.
ServiceResponses(chunk) == {chunk, FENCE_OPEN \o <<NL>> \o chunk \o FENCE_CLOSE}

\* Line 95, then lines 118-120: the translated chunk as translate_file keeps it.
TranslatedChunk(response) ==
    LET translated == Strip(response)
    IN  IF StartsWith(translated, FENCE_OPEN) /\ EndsWith(translated, FENCE_CLOSE)
        THEN Strip(SubSeq(translated, 8, Len(translated) - 3))
        ELSE translated

\* add_bom.py: the file as it is after "python3 add_bom.py".
AddBom(content) == IF StartsWith(content, <<BOM>>) THEN content ELSE <<BOM>> \o content

\* The files of the model.
HeaderLine == L_ENGLISH_COLON \o <<NL>>
EntryHi == <<SP>> \o L_ENGLISH_COLON \o <<"1", SP, QUOTE, "H", "i", QUOTE, NL>>
EntryWide == <<SP, SP, SP>> \o L_ENGLISH_COLON \o <<"0", SP, QUOTE, "x", QUOTE, SP, NL>>
EntryFrench == <<SP>> \o LangEntryKey(french) \o <<SP, QUOTE, "y", QUOTE, NL>>

FilePool ==
    { HeaderLine \o EntryHi,
      HeaderLine \o EntryWide \o EntryFrench,
      HeaderLine \o EntryHi \o EntryWide,
      <<BOM>> \o HeaderLine \o EntryHi,
      <<"#", "c", NL, NL>> \o HeaderLine \o <<SP, "k", ":", "0", SP, QUOTE, "x", QUOTE>> }

NotWritten == [written |-> FALSE]

RunInit ==
    \E n \in 1..MaxFiles :
    \E files \in [1..n -> FilePool], target_lang \in TargetLangs,
       encoding \in {"chars", "coarse"} :
        run = [pc |-> "walk", files |-> files, target_lang |-> target_lang,
               encoding |-> encoding, i |-> 1, text |-> <<>>, chunks |-> <<>>,
               k |-> 1, translated_chunks |-> <<>>, passthrough |-> TRUE,
               attempts |-> 0, error |-> "none",
               outputs |-> [j \in 1..n |-> NotWritten]]

\* Lines 289-294 and 106-113: the next file is read, its header rewritten and
\* its text split into chunks.
StartFile ==
    /\ run.pc = "walk"
    /\ run.i <= Len(run.files)
    /\ LET text == ReSub(L_ENGLISH_COLON, TargetHeader(run.target_lang),
                         run.files[run.i])
       IN  run' = [run EXCEPT !.pc = "chunks", !.text = text,
                     !.chunks = chunk_text_by_lines(text, MAX_TOKENS_PER_CHUNK,
                                                    run.encoding),
                     !.k = 1, !.translated_chunks = <<>>, !.passthrough = TRUE,
                     !.attempts = 0]
    /\ UNCHANGED <<chunker, finalizer, registry>>

\* Lines 115-121: the service answers and the translated chunk is kept.
TranslateChunk ==
    /\ run.pc = "chunks"
    /\ run.k <= Len(run.chunks)
    /\ \E response \in ServiceResponses(run.chunks[run.k]) :
        run' = [run EXCEPT !.k = @ + 1, !.attempts = 0,
                  !.translated_chunks = Append(@, TranslatedChunk(response)),
                  !.passthrough = @ /\ response = run.chunks[run.k]]
    /\ UNCHANGED <<chunker, finalizer, registry>>

\* Lines 76-80: the service raises RateLimitError and the call is tried again.
RateLimitedRetry ==
    /\ run.pc = "chunks"
    /\ run.k <= Len(run.chunks)
    /\ run.attempts < MaxRetries
    /\ run' = [run EXCEPT !.attempts = @ + 1]
    /\ UNCHANGED <<chunker, finalizer, registry>>

\* Lines 76-80: the service raises RateLimitError after the delay at which the
\* retries stop; the exception leaves translate_file and main.
RateLimitedGiveUp ==
    /\ run.pc = "chunks"
    /\ run.k <= Len(run.chunks)
    /\ run' = [run EXCEPT !.pc = "crashed", !.error = "RetryError"]
    /\ UNCHANGED <<chunker, finalizer, registry>>

\* Line 90: the service raises an error that is not retried; the exception
\* leaves translate_file and main.
ServiceError ==
    /\ run.pc = "chunks"
    /\ run.k <= Len(run.chunks)
    /\ run' = [run EXCEPT !.pc = "crashed", !.error = "APIError"]
    /\ UNCHANGED <<chunker, finalizer, registry>>

\* Lines 122-140 and 295-300: the chunks are joined, the text is reindented,
\* returned, written, and given its byte order mark.
FinishFile ==
    /\ run.pc = "chunks"
    /\ run.k > Len(run.chunks)
    /\ LET final_text == JoinWith(<<NL>>, run.translated_chunks)
           translated_text == Reindent(final_text)
       IN  run' = [run EXCEPT !.pc = "walk", !.i = @ + 1,
                     !.outputs[run.i] = [written |-> TRUE,
                                         returned |-> translated_text,
                                         file |-> AddBom(translated_text),
                                         nchunks |-> Len(run.chunks),
                                         passthrough |-> run.passthrough]]
    /\ UNCHANGED <<chunker, finalizer, registry>>

\* Lines 302-315: the walk is over.
FinishWalk ==
    /\ run.pc = "walk"
    /\ run.i > Len(run.files)
    /\ run' = [run EXCEPT !.pc = "done"]
    /\ UNCHANGED <<chunker, finalizer, registry>>

InitRun == RunInit /\ chunker = Idle /\ finalizer = Idle /\ registry = Idle

NextRun ==
    \/ StartFile
    \/ TranslateChunk
    \/ RateLimitedRetry
    \/ RateLimitedGiveUp
    \/ ServiceError
    \/ FinishFile
    \/ FinishWalk

SpecRun == InitRun /\ [][NextRun]_vars

(***************************************************************************)
(* Claims about chunk_text_by_lines (specification SpecChunk)              *)
(***************************************************************************)
ChunkDone == chunker.pc = "done"

\* The lines of each chunk, chunk after chunk.
ChunkLines == Concat([k \in 1..Len(chunker.chunks) |-> SplitLinesKeep(chunker.chunks[k])])

\* The join step of translate_file applied to the chunks as they are.
ChunksJoined == JoinWith(<<NL>>, chunker.chunks)

\* C1 as claimed: the chunks joined in order with one line break as separator
\* are the original text.
C1_JoinReconstructsText == ChunkDone => ChunksJoined = chunker.text

\* C1 as amended: the chunks concatenated in order with no separator are the
\* original text; joined with one line break as separator they are the original
\* text exactly when there is at most one chunk, and otherwise the join adds one
\* line break at each chunk boundary.
C1_ConcatReconstructsText ==
    ChunkDone =>
        /\ Concat(chunker.chunks) = chunker.text
        /\ (ChunksJoined = chunker.text <=> Len(chunker.chunks) <= 1)
        /\ Len(ChunksJoined) = Len(chunker.text) + (IF chunker.chunks = <<>> THEN 0
                                                     ELSE Len(chunker.chunks) - 1)

\* C1 witness: a text with a blank line was split into several chunks.
C1_Witness ==
    /\ ChunkDone
    /\ Len(chunker.chunks) >= 2
    /\ \E k \in 1..Len(chunker.lines) : chunker.lines[k] = <<NL>>

\* C2: every chunk of more than one line costs at most the budget, the cost
\* taken of the chunk as a whole; only a chunk of one line may cost more.
C2_MultiLineChunkWithinBudget ==
    ChunkDone =>
        \A k \in 1..Len(chunker.chunks) :
            Len(SplitLinesKeep(chunker.chunks[k])) > 1 =>
                TokenCount(chunker.encoding, chunker.chunks[k]) <= chunker.max_tokens

Prepared(rawline) == RStripNewline(LStripBom(rawline))

IsHeaderLine(rawline) ==
    Strip(Prepared(rawline)) # <<>> /\ HeaderRegex(Prepared(rawline)).ok

\* An Entry line of the dialect: its key ends in the version digit.
IsEntryLine(rawline) ==
    LET m == EntryRegex(Prepared(rawline))
    IN  /\ Strip(Prepared(rawline)) # <<>>
        /\ ~HeaderRegex(Prepared(rawline)).ok
        /\ m.ok
        /\ IsDigit(m.key[Len(m.key)])

\* An Entry line stands before any Header line.
EntryBeforeHeader(lines) ==
    \E n \in 1..Len(lines) :
        /\ IsEntryLine(lines[n])
        /\ \A m \in 1..(n - 1) : ~IsHeaderLine(lines[m])

RECURSIVE FromFirstHeader(_)
\* The lines from the first Header line on.
FromFirstHeader(lines) ==
    IF lines = <<>> \/ IsHeaderLine(Head(lines)) THEN lines
    ELSE FromFirstHeader(Tail(lines))

\* A Document of the dialect: every block has entries and every key ends in
\* its version digit.
ValidDocument(blocks) ==
    /\ blocks # <<>>
    /\ \A n \in 1..Len(blocks) :
        /\ blocks[n].entries # <<>>
        /\ \A m \in 1..Len(blocks[n].entries) :
            IsDigit(blocks[n].entries[m].key[Len(blocks[n].entries[m].key)])

\* C3: a Document the parser produced, serialized and parsed again, is the
\* same Document (blocks, keys and values, in order).
C3_RoundTrip ==
    (registry.pc = "parsed" /\ ValidDocument(registry.parsed))
        => parse_paradox_yaml(Serialize(registry.parsed)) = registry.parsed

\* C7 as claimed: the parse fails with StructureError exactly when an Entry
\* line stands before any Header line.
C7_FailsIffEntryBeforeHeader ==
    registry.pc = "parsed"
        => (registry.error = "StructureError" <=> EntryBeforeHeader(registry.lines))

\* C7 as amended: the parse never fails; Entry lines before the first Header
\* line are skipped like Blank, Comment and Unrecognized lines, so that the
\* Document is the one parsed from the first Header line on, and no entry is
\* kept outside a block opened by a Header.
C7_NeverFailsOrphansSkipped ==
    /\ registry.pc # "idle" => registry.error = "none"
    /\ registry.pc = "parsed" =>
        /\ registry.parsed =
              ParseLoop(ParseStart, FromFirstHeader(registry.lines)).blocks
        /\ \A n \in 1..Len(registry.parsed) : registry.parsed[n].header # None
        /\ (\A m \in 1..Len(registry.lines) : ~IsHeaderLine(registry.lines[m]))
              => registry.parsed = <<>>

\* C7 witness: a file with an Entry line before its first Header line and an
\* entry after it has been parsed.
C7_Witness ==
    /\ registry.pc = "parsed"
    /\ EntryBeforeHeader(registry.lines)
    /\ registry.parsed # <<>>
    /\ registry.parsed[1].entries # <<>>

\* The line is matched by entry_regex (and by nothing before it in the loop).
MatchesEntry(rawline) ==
    /\ Strip(Prepared(rawline)) # <<>>
    /\ ~HeaderRegex(Prepared(rawline)).ok
    /\ EntryRegex(Prepared(rawline)).ok

HeaderCode(rawline) == HeaderRegex(Prepared(rawline)).key
EntryKey(rawline) == EntryRegex(Prepared(rawline)).key
EntryValue(rawline) == EntryRegex(Prepared(rawline)).val

Largest(S) == CHOOSE n \in S : \A m \in S : m <= n
Smallest(S) == CHOOSE n \in S : \A m \in S : n <= m

\* The index of the most recent Header line before line n, 0 when none.
RecentHeader(lines, n) ==
    LET before == {m \in 1..(n - 1) : IsHeaderLine(lines[m])}
    IN  IF before = {} THEN 0 ELSE Largest(before)

\* Line n stands under a header of code h.
Under(lines, n, h) ==
    /\ RecentHeader(lines, n) # 0
    /\ HeaderCode(lines[RecentHeader(lines, n)]) = h

\* Among the first k lines: the entry lines under a header of code h with no
\* Header line of code h after them.
Kept(lines, k, h) ==
    {n \in 1..k :
        /\ MatchesEntry(lines[n])
        /\ Under(lines, n, h)
        /\ \A m \in (n + 1)..k :
              IsHeaderLine(lines[m]) => HeaderCode(lines[m]) # h}

\* The entries are those of the lines of S: one entry for each key, in the
\* order the keys are first seen, with the value of the last line of the key.
EntriesOf(entries, lines, S) ==
    /\ \A n \in S : HasKey(entries, EntryKey(lines[n]))
    /\ \A p \in 1..Len(entries) :
        LET with == {n \in S : EntryKey(lines[n]) = entries[p].key}
        IN  /\ with # {}
            /\ entries[p].val = EntryValue(lines[Largest(with)])
            /\ \A q \in 1..(p - 1) :
                LET earlier == {n \in S : EntryKey(lines[n]) = entries[q].key}
                IN  /\ entries[q].key # entries[p].key
                    /\ earlier # {}
                    /\ Smallest(earlier) < Smallest(with)

\* The blocks are those of the first k lines: one block for each code of a
\* Header line, in the order the codes are first seen, each with the entries
\* that stand after the last Header line of its code.
BlocksOf(blocks, lines, k) ==
    /\ \A m \in 1..k :
          IsHeaderLine(lines[m]) => HasBlock(blocks, HeaderCode(lines[m]))
    /\ \A p \in 1..Len(blocks) :
        LET with == {m \in 1..k : /\ IsHeaderLine(lines[m])
                                  /\ HeaderCode(lines[m]) = blocks[p].header}
        IN  /\ with # {}
            /\ EntriesOf(blocks[p].entries, lines, Kept(lines, k, blocks[p].header))
            /\ \A q \in 1..(p - 1) :
                LET earlier == {m \in 1..k : /\ IsHeaderLine(lines[m])
                                             /\ HeaderCode(lines[m]) = blocks[q].header}
                IN  /\ blocks[q].header # blocks[p].header
                    /\ earlier # {}
                    /\ Smallest(earlier) < Smallest(with)

\* C11 as claimed, retention: in the Document returned, the key of every
\* Entry line that comes after a Header line is present under the Block of
\* the most recent Header before it.
C11_EveryEntryRetained ==
    registry.pc = "parsed" =>
        \A n \in 1..Len(registry.lines) :
            (IsEntryLine(registry.lines[n]) /\ RecentHeader(registry.lines, n) # 0)
                => LET h == HeaderCode(registry.lines[RecentHeader(registry.lines, n)])
                   IN  /\ HasBlock(registry.parsed, h)
                       /\ HasKey(BlockOf(registry.parsed, h).entries,
                                 EntryKey(registry.lines[n]))

\* C11 as amended: after every iteration of the parse, the blocks are
\* determined by the lines that match the header or the entry pattern alone
\* (every other line changes neither the blocks nor the current header); a
\* Header line whose code has a Block already empties that Block, which keeps
\* its place; each Block holds the entry lines that stand under its code after
\* the last Header line of that code, one entry for each key, in the order the
\* keys are first seen, with the value of the last line of the key.
C11_EntriesSinceLastHeaderRetained ==
    /\ registry.pc = "parse" =>
        /\ BlocksOf(registry.blocks, registry.lines, registry.i - 1)
        /\ registry.current_header =
              IF RecentHeader(registry.lines, registry.i) = 0 THEN None
              ELSE HeaderCode(registry.lines[RecentHeader(registry.lines, registry.i)])
    /\ registry.pc = "parsed" =>
        BlocksOf(registry.parsed, registry.lines, Len(registry.lines))

\* C11 witness: a file was parsed in which a Header line comes twice, with an
\* Entry line under the first and an Entry line of another key under the
\* second; the Block returned holds the second entry alone.
C11_Witness ==
    /\ registry.pc = "parsed"
    /\ \E a, b, c, d \in 1..Len(registry.lines) :
        /\ a < b /\ b < c /\ c < d
        /\ IsHeaderLine(registry.lines[a])
        /\ IsEntryLine(registry.lines[b])
        /\ IsHeaderLine(registry.lines[c])
        /\ HeaderCode(registry.lines[c]) = HeaderCode(registry.lines[a])
        /\ IsEntryLine(registry.lines[d])
        /\ EntryKey(registry.lines[b]) # EntryKey(registry.lines[d])
        /\ Len(registry.parsed) = 1
        /\ Len(registry.parsed[1].entries) = 1
        /\ registry.parsed[1].entries[1].key = EntryKey(registry.lines[d])

\* update_languages_yml added the language to a registry that has a block
\* l_english and no block of the target language.
RegistryExtended ==
    /\ registry.pc = "done"
    /\ ~HasBlock(registry.parsed, LangHeader(registry.target_lang))
    /\ HasBlock(registry.parsed, LangHeader(english))

NewEntry == [key |-> LangEntryKey(registry.target_lang), val |-> registry.native]

\* The new block is last, and has the entries of l_english after the addition.
NewBlockClonesEnglish ==
    LET n == Len(registry.parsed)
    IN  /\ Len(registry.blocks) = n + 1
        /\ registry.blocks[n + 1].header = LangHeader(registry.target_lang)
        /\ \E e \in 1..n :
            /\ registry.blocks[e].header = LangHeader(english)
            /\ registry.blocks[n + 1].entries = registry.blocks[e].entries
        /\ HasKey(registry.blocks[n + 1].entries, NewEntry.key)

\* C8 as claimed: n + 1 blocks; every original block keeps its entries in
\* their order with the entry l_<T>:1 appended at the end; the new block has
\* the entries of l_english after the addition.
C8_EntryAppendedEverywhere ==
    RegistryExtended =>
        /\ NewBlockClonesEnglish
        /\ \A n \in 1..Len(registry.parsed) :
            /\ registry.blocks[n].header = registry.parsed[n].header
            /\ registry.blocks[n].entries = Append(registry.parsed[n].entries, NewEntry)

\* What the code does (the guard of line 215 looks up l_<T> among keys of the
\* form l_<T>:1 and never finds it): as claimed for every original block that
\* has no entry l_<T>:1; a block that already has the entry l_<T>:1 keeps its
\* keys in their order, and the value of l_<T>:1 is overwritten by the new name.
EntryAppendedOrOverwritten ==
    RegistryExtended =>
        /\ NewBlockClonesEnglish
        /\ \A n \in 1..Len(registry.parsed) :
            LET old == registry.parsed[n].entries
                new == registry.blocks[n].entries
            IN  /\ registry.blocks[n].header = registry.parsed[n].header
                /\ IF HasKey(old, NewEntry.key)
                   THEN /\ Len(new) = Len(old)
                        /\ \A m \in 1..Len(old) :
                            new[m] = IF old[m].key = NewEntry.key THEN NewEntry
                                     ELSE old[m]
                   ELSE new = Append(old, NewEntry)

(***************************************************************************)
(* Claims about the header rewrite and the reindentation                   *)
(* (specification SpecFinalize)                                            *)
(***************************************************************************)
\* Neither Blank nor Comment.
Structural(line) == Strip(line) # <<>> /\ Head(Strip(line)) # "#"

\* Exactly two leading spaces.
TwoSpaceIndented(line) ==
    Len(line) >= 3 /\ line[1] = SP /\ line[2] = SP /\ ~IsSpace(line[3])

\* The lines of the input file, its byte order mark set aside.
FinInputLines == SplitLines(LStripBom(finalizer.input))

\* The first line that is neither Blank nor Comment is the Header l_english:,
\* and no other line is a Header.
SoleHeaderEnglish(lines) ==
    \E h \in 1..Len(lines) :
        /\ IsHeaderLine(lines[h])
        /\ Strip(lines[h]) = L_ENGLISH_COLON
        /\ \A m \in 1..(h - 1) : ~Structural(lines[m])
        /\ \A m \in 1..Len(lines) : m # h => ~IsHeaderLine(lines[m])

\* The first structural line of the output is l_<L>: at column zero and every
\* later structural line has exactly two leading spaces.
HeaderThenIndented(lines, target_lang) ==
    LET S == {n \in 1..Len(lines) : Structural(lines[n])}
    IN  /\ S # {}
        /\ LET first == CHOOSE n \in S : \A m \in S : n <= m
           IN  /\ lines[first] = TargetHeader(target_lang)
               /\ \A n \in S : n > first => TwoSpaceIndented(lines[n])

\* C4 as claimed, for the names of languages: the header rewrite and
\* reindentation, applied to its own output, gives that output again.
C4_FinalizeIdempotent ==
    (finalizer.pc = "done" /\ finalizer.target_lang \in {czech, english})
        => Finalize(finalizer.result, finalizer.target_lang) = finalizer.result

\* C4 as amended: applied to its own output the pass changes no line (header
\* and indentation are a fixed point); for a language code that does not end
\* in l_english, it gives the same text when that output does not end in a
\* line break, and otherwise (the input ended in an empty line) the output
\* without its last line break.
C4_FinalizeIdempotentUpToLastBreak ==
    finalizer.pc = "done" =>
        LET once == finalizer.result
            twice == Finalize(once, finalizer.target_lang)
        IN  /\ ReindentLoop(finalizer.output_lines, FALSE) = finalizer.output_lines
            /\ ~EndsWith(finalizer.target_lang, <<"l", "_">> \o english)
                => twice = IF EndsWith(once, <<NL>>)
                           THEN SubSeq(once, 1, Len(once) - 1)
                           ELSE once

\* C4 witness: the pass found the header, changed the indentation of a line
\* and returned a text other than its input.
C4_Witness ==
    /\ finalizer.pc = "done"
    /\ finalizer.header_found
    /\ finalizer.result # finalizer.input
    /\ \E n \in 1..Len(finalizer.lines) :
        /\ Structural(finalizer.lines[n])
        /\ finalizer.output_lines[n] # finalizer.lines[n]
        /\ TwoSpaceIndented(finalizer.output_lines[n])

\* C5: for an input, with or without a byte order mark, whose sole Header is
\* l_english:, the first structural line of the output is exactly l_<L>: and
\* every later structural line starts with exactly two spaces.
C5_HeaderRewritten ==
    (finalizer.pc = "done" /\ SoleHeaderEnglish(FinInputLines))
        => HeaderThenIndented(SplitLines(finalizer.result), finalizer.target_lang)

\* C5 holds of the files that do not start with a byte order mark.
C5_HeaderRewrittenWithoutBom ==
    (/\ finalizer.pc = "done"
     /\ SoleHeaderEnglish(FinInputLines)
     /\ ~StartsWith(finalizer.input, <<BOM>>))
        => HeaderThenIndented(SplitLines(finalizer.result), finalizer.target_lang)

(***************************************************************************)
(* Claims about translate_file and main (specification SpecRun)            *)
(***************************************************************************)
\* The header l_english: at column zero followed by Entry lines only, every
\* line ended by a line break.
HeaderAndEntries(text) ==
    LET lines == SplitLinesKeep(text)
    IN  /\ Len(lines) >= 2
        /\ lines[1] = HeaderLine
        /\ \A n \in 2..Len(lines) : IsEntryLine(lines[n]) /\ EndsWith(lines[n], <<NL>>)

\* The files C6 is about: written from one chunk by a service that returned
\* its input unchanged.
PassthroughFiles ==
    {j \in 1..Len(run.files) :
        /\ run.outputs[j].written
        /\ run.outputs[j].passthrough
        /\ run.outputs[j].nchunks = 1
        /\ HeaderAndEntries(run.files[j])}

\* An entry line, without its line break, as the claim expects it in the
\* output: the key relabeled, two leading spaces.
ExpectedEntry(line) ==
    <<SP, SP>> \o LStrip(ReSub(L_ENGLISH_COLON, TargetHeader(run.target_lang),
                               ChompBreak(line)))

\* C6 as claimed: the text returned is the header l_<L>: followed by the same
\* entries, relabeled and with two leading spaces, as many lines as the
\* input, every line (the last included) ended by a line break.
C6_PassthroughKeepsLastBreak ==
    \A j \in PassthroughFiles :
        LET lines == SplitLinesKeep(run.files[j])
        IN  run.outputs[j].returned =
                TargetHeader(run.target_lang) \o <<NL>>
                \o Concat([n \in 1..(Len(lines) - 1) |->
                             ExpectedEntry(lines[n + 1]) \o <<NL>>])

\* C6 as amended: as claimed, except that the lines are separated by line
\* breaks and the last line has none, nor any trailing whitespace.
C6_PassthroughDropsLastBreak ==
    \A j \in PassthroughFiles :
        LET lines == SplitLinesKeep(run.files[j])
            n == Len(lines)
        IN  run.outputs[j].returned =
                JoinWith(<<NL>>,
                         <<TargetHeader(run.target_lang)>>
                         \o [m \in 1..(n - 1) |->
                               IF m + 1 < n THEN ExpectedEntry(lines[m + 1])
                               ELSE RStrip(ExpectedEntry(lines[m + 1]))])

\* C6 witness: the file of the scenario and a file whose last entry has
\* trailing whitespace were returned from a passthrough service.
C6_Witness ==
    /\ run.pc = "done"
    /\ \E j \in PassthroughFiles : run.files[j] = HeaderLine \o EntryHi
    /\ \E j \in PassthroughFiles : run.files[j] = HeaderLine \o EntryHi \o EntryWide

\* C9: when the translation of a chunk of a file ends in a terminal failure,
\* no output is written for that file, and every other file of the run is
\* processed and its output written.
C9_OtherFilesStillWritten ==
    run.pc = "crashed" =>
        /\ ~run.outputs[run.i].written
        /\ \A j \in 1..Len(run.files) : j # run.i => run.outputs[j].written

====
